---- MODULE Spec2Model ----
(***************************************************************************)
(* A model of the diggin-ui-system library: the responsive value resolver, *)
(* the FocusTrap, the Button render function, the theme switch, the icon   *)
(* lookup table, the WCAG contrast predicate, the stylesheets of mounted   *)
(* icons, the screen-reader announcements and the helpers that read the    *)
(* host's window and document.  Each subsystem has its own variables and   *)
(* its own specification; the variables of the other subsystems stay at    *)
(* their idle value.                                                       *)
(***************************************************************************)
EXTENDS Integers, Sequences, FiniteSets, TLC

VARIABLES
    \* ---- utils/responsive: one call of getResponsiveValue
    responsiveValue,     \* the first argument (a JS value)
    currentBreakpoint,   \* the second argument
    rvCalled,            \* whether the call has returned
    rvResult,            \* what it returned
    \* ---- utils/accessibility: one FocusTrap on one container
    focusableDom,        \* container descendants matching the selectors now
    activeElement,       \* document.activeElement
    focusableElements,   \* this.focusableElements
    firstFocusable,      \* this.firstFocusable
    lastFocusable,       \* this.lastFocusable
    listeners,           \* keydown listeners registered on the container
    nextBound,           \* identity of the next function made by .bind(this)
    trapActive,          \* history: activate() called, deactivate() not since
    everActivated,       \* history: activate() has been called
    lastEvent,           \* the last keydown dispatched on the container
    \* ---- components/atoms/Button: one render of Button
    buttonProps,         \* the props of the last render
    rendered,            \* the element the last render returned
    \* ---- index.ts: the data-theme attribute and the calls made on it
    dataTheme,           \* documentElement's data-theme attribute
    themeLog,            \* the calls made so far, oldest first
    \* ---- Icons.tsx / iconLoader: lookups and colour resolution
    iconName,            \* the argument of the last getIconComponent call
    iconComponent,       \* what it returned
    iconColorArg,        \* the color prop of the last BaseIcon colour resolution
    iconColorCss,        \* the CSS colour BaseIcon derived from it
    \* ---- utils/accessibility: one call of meetsWCAGRequirement
    color1, color2,      \* the two colours, as the hex digits of the string
    wcagLevel,           \* 'AA' | 'AAA' | omitted
    wcagSize,            \* 'normal' | 'large' | omitted
    wcagCalled,          \* whether the call has returned
    wcagResult,          \* what it returned
    \* ---- Icons.tsx: BaseIcon instances mounted in the page and their stylesheets
    mountedIcons,        \* per icon slot: the mounted BaseIcon instance, if any
    headStyles,          \* the <style> elements in document.head, by rule
    \* ---- utils/accessibility: announceToScreenReader and its removal timeouts
    announceCalls,       \* history: the arguments of the announceToScreenReader calls, oldest first
    liveElements,        \* the elements announceToScreenReader created, oldest first
    bodyChildren,        \* the created elements now in document.body, in document order
    timers,              \* the elements of the pending removal timeouts, in firing order
    removeLog,           \* the removeChild calls the timeouts made, oldest first
    \* ---- the host environment (browser or server) and the helpers that read it
    window,              \* the global window object, if the host has one
    document,            \* the global document object, if the host has one
    hostCall,            \* the last call of a viewport helper or createSkipLink that returned
    \* ---- exceptions
    thrown,              \* history: the exceptions calls have thrown to their caller, oldest first
    \* ---- utils/responsive: gridColumns, responsiveSpacing, responsiveFontSize
    cssCall              \* the last call of a CSS emitter on responsiveValue and the CSS it returned

responsiveVars == <<responsiveValue, currentBreakpoint, rvCalled, rvResult>>
focusVars == <<focusableDom, activeElement, focusableElements, firstFocusable,
               lastFocusable, listeners, nextBound, trapActive, everActivated,
               lastEvent>>
buttonVars == <<buttonProps, rendered>>
themeVars == <<dataTheme, themeLog>>
iconVars == <<iconName, iconComponent, iconColorArg, iconColorCss>>
contrastVars == <<color1, color2, wcagLevel, wcagSize, wcagCalled, wcagResult>>
mountVars == <<mountedIcons, headStyles>>
announceVars == <<announceCalls, liveElements, bodyChildren, timers, removeLog>>
hostVars == <<window, document, hostCall>>
errorVars == <<thrown>>
cssVars == <<cssCall>>
vars == <<cssVars, errorVars, hostVars, announceVars, mountVars, responsiveVars, focusVars, buttonVars, themeVars, iconVars, contrastVars>>
\* What an action of one subsystem leaves alone: the other subsystems.
notResponsive == <<cssVars, errorVars, hostVars, announceVars, mountVars, focusVars, buttonVars, themeVars, iconVars, contrastVars>>
notFocus == <<cssVars, errorVars, hostVars, announceVars, mountVars, responsiveVars, buttonVars, themeVars, iconVars, contrastVars>>
notButton == <<cssVars, errorVars, hostVars, announceVars, mountVars, responsiveVars, focusVars, themeVars, iconVars, contrastVars>>
notTheme == <<cssVars, hostVars, announceVars, mountVars, responsiveVars, focusVars, buttonVars, iconVars, contrastVars>>
notIcons == <<cssVars, errorVars, hostVars, announceVars, mountVars, responsiveVars, focusVars, buttonVars, themeVars, contrastVars>>
notContrast == <<cssVars, errorVars, hostVars, announceVars, mountVars, responsiveVars, focusVars, buttonVars, themeVars, iconVars>>
notCss == <<errorVars, hostVars, announceVars, mountVars, responsiveVars, focusVars, buttonVars, themeVars, iconVars, contrastVars>>
notHost == <<cssVars, announceVars, mountVars, responsiveVars, focusVars, buttonVars, themeVars, iconVars, contrastVars>>
notAnnounce == <<cssVars, hostVars, mountVars, responsiveVars, focusVars, buttonVars, themeVars, iconVars, contrastVars>>
notMount == <<cssVars, errorVars, hostVars, announceVars, responsiveVars, focusVars, buttonVars, themeVars, iconVars, contrastVars>>

\* JavaScript's undefined and null, and "no value yet" of the model itself.
Undefined == "undefined"
Null == "null"
NotYet == "not-yet"

(***************************************************************************)
(* utils/responsive                                                        *)
(***************************************************************************)
Breakpoints == {"mobile", "tablet", "desktop", "wide"}

\* The order of BREAKPOINTS: mobile < tablet < desktop < wide.
BreakpointRank(b) ==
    CASE b = "mobile" -> 1 [] b = "tablet" -> 2 [] b = "desktop" -> 3 [] b = "wide" -> 4

\* Values of T an entry of a mapping can hold: two falsy ones and two truthy ones.
EntryValues == {"0", "''", "2", "'md'"}

\* A JS value: a primitive (prim), or an object with the four optional
\* breakpoint properties (a property that is absent reads as undefined).
JsPrim(p) == [isObject |-> FALSE, prim |-> p, props |-> [b \in Breakpoints |-> Undefined]]
JsObject(m) == [isObject |-> TRUE, prim |-> "object", props |-> m]

ResponsiveMappings == {JsObject(m) : m \in [Breakpoints -> EntryValues \cup {Undefined}]}
PlainValues == {JsPrim(p) : p \in EntryValues \cup {Undefined, Null}}

\* A plain T that is itself an object: an array or a record without breakpoint
\* properties.  prim names the object, and its breakpoint properties read as
\* undefined.
JsPlainObject(name) ==
    [isObject |-> TRUE, prim |-> name, props |-> [b \in Breakpoints |-> Undefined]]
PlainObjects == {JsPlainObject(name) : name \in {"[1, 2]", "{x: 1}"}}

\* typeof v (typeof null is 'object').
TypeOf(v) ==
    IF v.isObject \/ v.prim = Null THEN "object"
    ELSE IF v.prim = Undefined THEN "undefined"
    ELSE IF v.prim \in {"0", "2"} THEN "number"
    ELSE "string"

\* a ?? b
Nullish(a, b) == IF a = Undefined \/ a = Null THEN b ELSE a

\* a || b, on the values of the model
Falsy(a) == a \in {Undefined, Null, "0", "''"}
OrElse(a, b) == IF Falsy(a) THEN b ELSE a

\* A plausible slip: || for ??, which drops the falsy entries 0 and ''.
getResponsiveValue_falsy(rv, bp) ==
    IF TypeOf(rv) # "object" \/ (~rv.isObject /\ rv.prim = Null)
    THEN rv.prim
    ELSE LET r == rv.props IN
         CASE bp = "wide" -> OrElse(r["wide"], OrElse(r["desktop"], OrElse(r["tablet"], r["mobile"])))
           [] bp = "desktop" -> OrElse(r["desktop"], OrElse(r["tablet"], r["mobile"]))
           [] bp = "tablet" -> OrElse(r["tablet"], r["mobile"])
           [] OTHER -> r["mobile"]

getResponsiveValue(rv, bp) ==
    IF TypeOf(rv) # "object" \/ (~rv.isObject /\ rv.prim = Null)
    THEN rv.prim
    ELSE LET r == rv.props IN
         CASE bp = "wide" -> Nullish(r["wide"], Nullish(r["desktop"], Nullish(r["tablet"], r["mobile"])))
           [] bp = "desktop" -> Nullish(r["desktop"], Nullish(r["tablet"], r["mobile"]))
           [] bp = "tablet" -> Nullish(r["tablet"], r["mobile"])
           [] OTHER -> r["mobile"]

InitResponsive ==
    /\ responsiveValue \in ResponsiveMappings \cup PlainValues \cup PlainObjects
    /\ currentBreakpoint \in Breakpoints
    /\ rvCalled = FALSE
    /\ rvResult = NotYet

IdleResponsive ==
    /\ responsiveValue = JsPrim(Undefined)
    /\ currentBreakpoint = "mobile"
    /\ rvCalled = FALSE
    /\ rvResult = NotYet

CallGetResponsiveValue ==
    /\ ~rvCalled
    /\ rvCalled' = TRUE
    /\ rvResult' = getResponsiveValue(responsiveValue, currentBreakpoint)
    /\ UNCHANGED <<responsiveValue, currentBreakpoint>>
    /\ UNCHANGED notResponsive

NextResponsive ==
    \/ CallGetResponsiveValue

(***************************************************************************)
(* utils/accessibility: FocusTrap                                          *)
(***************************************************************************)
\* The container holds at most MaxElems focusable descendants, numbered in
\* document order.
MaxElems == 3
\* How many functions .bind(this) makes in one run (each call makes a new one).
MaxBinds == 3

Elems == 1..MaxElems
\* Focus on no focusable descendant: on the container itself or on the body.
Outside == 0
\* The null of firstFocusable and lastFocusable.
NullElem == -1

Keys == {"Tab", "Enter", "Escape"}

NoEvent == [key |-> "none", shiftKey |-> FALSE, defaultPrevented |-> FALSE,
            before |-> Outside, afterHandlers |-> Outside, intercepts |-> 0]

RECURSIVE SortedSeq(_)
SortedSeq(S) ==
    IF S = {} THEN <<>>
    ELSE LET m == CHOOSE x \in S : \A y \in S : x <= y
         IN <<m>> \o SortedSeq(S \ {m})

\* querySelectorAll(selectors): the matching descendants, in document order.
getFocusableElements == SortedSeq(focusableDom)

\* list[i] || null
ElemOrNull(list, i) == IF i >= 1 /\ i <= Len(list) THEN list[i] ELSE NullElem

\* e?.focus() with `active` focused: nothing for null, and nothing for an
\* element that is no longer a focusable descendant of the container.
Focus(e, active) == IF e # NullElem /\ e \in focusableDom THEN e ELSE active

\* A plausible slip: the empty-list branch returns without preventDefault.
handleKeydown_noSuppress(key, shiftKey, st) ==
    IF key # "Tab" THEN st
    ELSE IF Len(focusableElements) = 0 THEN st
    ELSE IF shiftKey
    THEN IF st.active = firstFocusable
         THEN [prevented |-> TRUE, active |-> Focus(lastFocusable, st.active),
               intercepts |-> st.intercepts + 1]
         ELSE st
    ELSE IF st.active = lastFocusable
         THEN [prevented |-> TRUE, active |-> Focus(firstFocusable, st.active),
               intercepts |-> st.intercepts + 1]
         ELSE st

\* A plausible slip: Shift+Tab on the first element gives focus to the first
\* element again, and Tab on the last to the last.
handleKeydown_noWrap(key, shiftKey, st) ==
    IF key # "Tab" THEN st
    ELSE IF Len(focusableElements) = 0
    THEN [st EXCEPT !.prevented = TRUE, !.intercepts = @ + 1]
    ELSE IF shiftKey
    THEN IF st.active = firstFocusable
         THEN [prevented |-> TRUE, active |-> Focus(firstFocusable, st.active),
               intercepts |-> st.intercepts + 1]
         ELSE st
    ELSE IF st.active = lastFocusable
         THEN [prevented |-> TRUE, active |-> Focus(lastFocusable, st.active),
               intercepts |-> st.intercepts + 1]
         ELSE st

\* A plausible slip: only the Shift+Tab boundary is handled.
handleKeydown_shiftOnly(key, shiftKey, st) ==
    IF key # "Tab" THEN st
    ELSE IF Len(focusableElements) = 0
    THEN [st EXCEPT !.prevented = TRUE, !.intercepts = @ + 1]
    ELSE IF shiftKey /\ st.active = firstFocusable
    THEN [prevented |-> TRUE, active |-> Focus(lastFocusable, st.active),
          intercepts |-> st.intercepts + 1]
    ELSE st

\* A plausible slip: every Tab is prevented, and the focus moved only at the
\* two ends.
handleKeydown_everyTab(key, shiftKey, st) ==
    IF key # "Tab" THEN st
    ELSE IF Len(focusableElements) = 0
    THEN [st EXCEPT !.prevented = TRUE, !.intercepts = @ + 1]
    ELSE IF shiftKey
    THEN [prevented |-> TRUE,
          active |-> IF st.active = firstFocusable
                     THEN Focus(lastFocusable, st.active) ELSE st.active,
          intercepts |-> st.intercepts + 1]
    ELSE [prevented |-> TRUE,
          active |-> IF st.active = lastFocusable
                     THEN Focus(firstFocusable, st.active) ELSE st.active,
          intercepts |-> st.intercepts + 1]

\* A plausible slip: the handler queries the container at each key press
\* instead of using the stored list.
handleKeydown_liveQuery(key, shiftKey, st) ==
    LET list == getFocusableElements IN
    IF key # "Tab" THEN st
    ELSE IF Len(list) = 0
    THEN [st EXCEPT !.prevented = TRUE, !.intercepts = @ + 1]
    ELSE IF shiftKey
    THEN IF st.active = list[1]
         THEN [prevented |-> TRUE, active |-> Focus(list[Len(list)], st.active),
               intercepts |-> st.intercepts + 1]
         ELSE st
    ELSE IF st.active = list[Len(list)]
         THEN [prevented |-> TRUE, active |-> Focus(list[1], st.active),
               intercepts |-> st.intercepts + 1]
         ELSE st

\* One run of the handler.  st is the event and the focus as the handler finds
\* them: [prevented, active, intercepts]; the result is what it leaves.
handleKeydown(key, shiftKey, st) ==
    IF key # "Tab" THEN st
    ELSE IF Len(focusableElements) = 0
    THEN [st EXCEPT !.prevented = TRUE, !.intercepts = @ + 1]
    ELSE IF shiftKey
    THEN IF st.active = firstFocusable
         THEN [prevented |-> TRUE, active |-> Focus(lastFocusable, st.active),
               intercepts |-> st.intercepts + 1]
         ELSE st
    ELSE IF st.active = lastFocusable
         THEN [prevented |-> TRUE, active |-> Focus(firstFocusable, st.active),
               intercepts |-> st.intercepts + 1]
         ELSE st

\* The container's keydown listeners run one after the other; each is
\* handleKeydown bound to the trap.
RECURSIVE RunListeners(_, _, _, _)
RunListeners(n, key, shiftKey, st) ==
    IF n = 0 THEN st
    ELSE RunListeners(n - 1, key, shiftKey, handleKeydown(key, shiftKey, st))

\* The browser's own Tab traversal, taken when no listener prevented it: the
\* tab order is cyclic, Outside followed by the container's focusable
\* descendants in document order.
TabOrder == <<Outside>> \o getFocusableElements
IndexIn(seq, e) == CHOOSE i \in 1..Len(seq) : seq[i] = e
BrowserTab(shiftKey, active) ==
    LET n == Len(TabOrder)
        i == IndexIn(TabOrder, active)
    IN IF shiftKey THEN TabOrder[IF i = 1 THEN n ELSE i - 1]
       ELSE TabOrder[IF i = n THEN 1 ELSE i + 1]

\* new FocusTrap(element), on a container in any state: the list is computed
\* and one bound copy of handleKeydown (identity 0) is registered.
InitFocus ==
    /\ focusableDom \in SUBSET Elems
    /\ activeElement \in focusableDom \cup {Outside}
    /\ focusableElements = getFocusableElements
    /\ firstFocusable = ElemOrNull(getFocusableElements, 1)
    /\ lastFocusable = ElemOrNull(getFocusableElements, Len(getFocusableElements))
    /\ listeners = {0}
    /\ nextBound = 1
    /\ trapActive = FALSE
    /\ everActivated = FALSE
    /\ lastEvent = NoEvent

IdleFocus ==
    /\ focusableDom = {}
    /\ activeElement = Outside
    /\ focusableElements = <<>>
    /\ firstFocusable = NullElem
    /\ lastFocusable = NullElem
    /\ listeners = {0}
    /\ nextBound = 1
    /\ trapActive = FALSE
    /\ everActivated = FALSE
    /\ lastEvent = NoEvent

\* A plausible slip: activate() calls bindEvents() as the constructor does.
activate_rebinding ==
    LET list == getFocusableElements IN
    /\ nextBound < MaxBinds
    /\ focusableElements' = list
    /\ firstFocusable' = ElemOrNull(list, 1)
    /\ lastFocusable' = ElemOrNull(list, Len(list))
    /\ activeElement' = Focus(ElemOrNull(list, 1), activeElement)
    /\ listeners' = listeners \cup {nextBound}
    /\ nextBound' = nextBound + 1
    /\ trapActive' = TRUE
    /\ everActivated' = TRUE
    /\ lastEvent' = NoEvent
    /\ UNCHANGED focusableDom
    /\ UNCHANGED notFocus

\* A plausible slip: activate() without updateFocusableElements(), focusing
\* the first element of the list as it was.
activate_staleList ==
    /\ activeElement' = Focus(firstFocusable, activeElement)
    /\ trapActive' = TRUE
    /\ everActivated' = TRUE
    /\ lastEvent' = NoEvent
    /\ UNCHANGED <<focusableDom, focusableElements, firstFocusable, lastFocusable,
                   listeners, nextBound>>
    /\ UNCHANGED notFocus

\* activate(): updateFocusableElements(), then firstFocusable?.focus().
activate ==
    LET list == getFocusableElements IN
    /\ focusableElements' = list
    /\ firstFocusable' = ElemOrNull(list, 1)
    /\ lastFocusable' = ElemOrNull(list, Len(list))
    /\ activeElement' = Focus(ElemOrNull(list, 1), activeElement)
    /\ trapActive' = TRUE
    /\ everActivated' = TRUE
    /\ lastEvent' = NoEvent
    /\ UNCHANGED <<focusableDom, listeners, nextBound>>
    /\ UNCHANGED notFocus

\* deactivate(): removeEventListener with a function bind has just made, which
\* is none of the registered ones.
deactivate ==
    /\ nextBound < MaxBinds
    /\ listeners' = listeners \ {nextBound}
    /\ nextBound' = nextBound + 1
    /\ trapActive' = FALSE
    /\ lastEvent' = NoEvent
    /\ UNCHANGED <<focusableDom, activeElement, focusableElements, firstFocusable,
                   lastFocusable, everActivated>>
    /\ UNCHANGED notFocus

\* A keydown event dispatched on the container (on the focused descendant, or
\* on the container itself): the listeners run, then the browser's default.
Keydown ==
    \E key \in Keys, shiftKey \in BOOLEAN :
        LET st0 == [prevented |-> FALSE, active |-> activeElement, intercepts |-> 0]
            st1 == RunListeners(Cardinality(listeners), key, shiftKey, st0)
        IN /\ lastEvent' = [key |-> key, shiftKey |-> shiftKey,
                            defaultPrevented |-> st1.prevented,
                            before |-> activeElement,
                            afterHandlers |-> st1.active,
                            intercepts |-> st1.intercepts]
           /\ activeElement' = IF key = "Tab" /\ ~st1.prevented
                               THEN BrowserTab(shiftKey, st1.active)
                               ELSE st1.active
           /\ UNCHANGED <<focusableDom, focusableElements, firstFocusable,
                          lastFocusable, listeners, nextBound, trapActive,
                          everActivated>>
           /\ UNCHANGED notFocus

\* The host page adds a focusable descendant to the container (or enables one).
AddFocusable ==
    \E e \in Elems \ focusableDom :
        /\ focusableDom' = focusableDom \cup {e}
        /\ lastEvent' = NoEvent
        /\ UNCHANGED <<activeElement, focusableElements, firstFocusable,
                       lastFocusable, listeners, nextBound, trapActive,
                       everActivated>>
        /\ UNCHANGED notFocus

\* The host page removes a focusable descendant (or disables it); a focused
\* element that goes loses the focus.
RemoveFocusable ==
    \E e \in focusableDom :
        /\ focusableDom' = focusableDom \ {e}
        /\ activeElement' = IF activeElement = e THEN Outside ELSE activeElement
        /\ lastEvent' = NoEvent
        /\ UNCHANGED <<focusableElements, firstFocusable, lastFocusable,
                       listeners, nextBound, trapActive, everActivated>>
        /\ UNCHANGED notFocus

\* The user clicks a focusable descendant, or outside them.
HostFocus ==
    \E e \in focusableDom \cup {Outside} :
        /\ e # activeElement
        /\ activeElement' = e
        /\ lastEvent' = NoEvent
        /\ UNCHANGED <<focusableDom, focusableElements, firstFocusable,
                       lastFocusable, listeners, nextBound, trapActive,
                       everActivated>>
        /\ UNCHANGED notFocus

NextFocus ==
    \/ activate
    \/ deactivate
    \/ Keydown
    \/ AddFocusable
    \/ RemoveFocusable
    \/ HostFocus

(***************************************************************************)
(* components/atoms/Button                                                 *)
(***************************************************************************)
\* A prop that is not passed, and an attribute that is not rendered.
Absent == "absent"

\* React nodes given as the icon prop: none, an element whose type is a
\* component (<SaveIcon size color/>), such an element that cloneElement throws
\* on, an element whose type is a string tag (<i/>), a text node, a number and
\* the falsy number 0.
NoIcon == [kind |-> "none", size |-> Undefined, color |-> Undefined]
IconNodes ==
    {NoIcon}
    \cup {[kind |-> "component", size |-> s, color |-> c] :
            s \in {Undefined, "12"}, c \in {Undefined, "success-500"}}
    \cup {[kind |-> "tag", size |-> Undefined, color |-> Undefined],
          [kind |-> "text", size |-> Undefined, color |-> Undefined],
          [kind |-> "number", size |-> Undefined, color |-> Undefined],
          [kind |-> "zero", size |-> Undefined, color |-> Undefined],
          [kind |-> "uncloneable", size |-> "12", color |-> Undefined]}

\* A plausible slip: the icon prop is taken as given whatever it holds.
IconTruthy_always(node) == TRUE

\* The truthiness of a node, as icon || loading and !iconElement test it.
IconTruthy(node) == node.kind \notin {"none", "zero"}
\* React.isValidElement(node) && typeof node.type !== 'string'
IsComponentElement(node) == node.kind \in {"component", "uncloneable"}

\* The props of one render.  ariaBusy and ariaDisabled are the 'aria-busy' and
\* 'aria-disabled' keys of the rest props, which ButtonHTMLAttributes allows.
ButtonPropsSpace ==
    [variant : {Undefined, "secondary"},
     loading : {Undefined, "true", "false"},
     disabled : {Undefined, "true", "false"},
     iconPosition : {Undefined, "left", "right"},
     icon : IconNodes,
     iconColor : {Undefined, "error-500"},
     iconSize : {Undefined, "24"},
     children : {Undefined, "'Save'"},
     ariaBusy : {Absent, "true", "false"},
     ariaDisabled : {Absent, "true", "false"}]

\* A destructuring default: v = d.
Default(v, d) == IF v = Undefined THEN d ELSE v
Truthy(v) == v \notin {Undefined, "false", Null, "0", "''"}

\* A plausible slip: the supplied icon is looked at before the loading flag.
renderIcon_iconFirst(p, iconElement) ==
    LET loading == Default(p.loading, "false")
        iconSize == Default(p.iconSize, "18")
    IN IF IconTruthy(iconElement)
       THEN IF iconElement.kind = "component"
            THEN [kind |-> "component", size |-> iconSize,
                  color |-> IF p.iconColor # Undefined THEN p.iconColor
                            ELSE iconElement.color]
            ELSE iconElement
       ELSE IF Truthy(loading)
            THEN [kind |-> "LoaderIcon", size |-> iconSize, color |-> p.iconColor]
            ELSE NoIcon

\* A plausible slip: every truthy node is cloned with the icon props.
renderIcon_cloneAll(p, iconElement) ==
    LET loading == Default(p.loading, "false")
        iconSize == Default(p.iconSize, "18")
    IN IF Truthy(loading)
       THEN [kind |-> "LoaderIcon", size |-> iconSize, color |-> p.iconColor]
       ELSE IF ~IconTruthy(iconElement) THEN NoIcon
       ELSE [kind |-> iconElement.kind, size |-> iconSize,
             color |-> IF p.iconColor # Undefined THEN p.iconColor
                       ELSE iconElement.color]

\* renderIcon(iconElement): the loader while loading; otherwise the supplied
\* node, cloned with iconSize (which the default 18 always defines) and, when
\* given, iconColor if it is an element whose type is a component; the
\* element itself when cloneElement throws.
renderIcon(p, iconElement) ==
    LET loading == Default(p.loading, "false")
        iconSize == Default(p.iconSize, "18")
    IN IF Truthy(loading)
       THEN [kind |-> "LoaderIcon", size |-> iconSize, color |-> p.iconColor]
       ELSE IF ~IconTruthy(iconElement) THEN NoIcon
       ELSE IF IsComponentElement(iconElement)
            THEN IF iconElement.kind = "uncloneable" THEN iconElement
                 ELSE [kind |-> "component", size |-> iconSize,
                       color |-> IF p.iconColor # Undefined THEN p.iconColor
                                 ELSE iconElement.color]
            ELSE iconElement

\* An object spread: the later key wins.
Spread(earlier, later) == IF later # Absent THEN later ELSE earlier

NoSlot == [shown |-> FALSE, icon |-> NoIcon]

\* A plausible slip: the disabled attribute follows the disabled prop alone.
ButtonDisabledAttr_propOnly(p) == Truthy(p.disabled)

\* disabled={disabled || loading}
ButtonDisabledAttr(p) == Truthy(p.disabled) \/ Truthy(Default(p.loading, "false"))

\* The element Button returns for props p.
Button(p) ==
    LET loading == Truthy(Default(p.loading, "false"))
        iconPosition == Default(p.iconPosition, "left")
        hasIcon == IconTruthy(p.icon) \/ loading
        showLeftIcon == hasIcon /\ iconPosition = "left"
        showRightIcon == hasIcon /\ iconPosition = "right"
    IN [classNames |-> {"btn", IF p.variant = Undefined THEN "btn--primary"
                               ELSE "btn--secondary", "btn--medium"}
                       \cup (IF loading THEN {"btn--loading"} ELSE {})
                       \cup (IF Truthy(p.disabled) THEN {"btn--disabled"} ELSE {}),
        disabled |-> ButtonDisabledAttr(p),
        ariaDisabled |-> Spread(IF Truthy(p.disabled) \/ loading THEN "true" ELSE Absent,
                                p.ariaDisabled),
        ariaBusy |-> Spread(IF loading THEN "true" ELSE Absent, p.ariaBusy),
        left |-> IF showLeftIcon THEN [shown |-> TRUE, icon |-> renderIcon(p, p.icon)]
                 ELSE NoSlot,
        content |-> IF p.children # Undefined THEN p.children ELSE Absent,
        right |-> IF showRightIcon THEN [shown |-> TRUE, icon |-> renderIcon(p, p.icon)]
                  ELSE NoSlot]

NoProps == [variant |-> Undefined, loading |-> Undefined, disabled |-> Undefined,
            iconPosition |-> Undefined, icon |-> NoIcon, iconColor |-> Undefined,
            iconSize |-> Undefined, children |-> Undefined, ariaBusy |-> Absent,
            ariaDisabled |-> Absent]
NotRendered == [classNames |-> {}, disabled |-> FALSE, ariaDisabled |-> Absent,
                ariaBusy |-> Absent, left |-> NoSlot, content |-> Absent,
                right |-> NoSlot]

\* The props React is about to render Button with.
InitButton ==
    /\ buttonProps \in ButtonPropsSpace
    /\ rendered = NotRendered

IdleButton ==
    /\ buttonProps = NoProps
    /\ rendered = NotRendered

\* React renders Button with the props.
RenderButton ==
    /\ rendered = NotRendered
    /\ rendered' = Button(buttonProps)
    /\ UNCHANGED buttonProps
    /\ UNCHANGED notButton

NextButton ==
    \/ RenderButton

(***************************************************************************)
(* The host: window and document, and the functions that read them         *)
(***************************************************************************)
\* Bound of the model: how many exceptions are recorded.
MaxThrows == 3

BREAKPOINTS == [mobile |-> 320, tablet |-> 768, desktop |-> 1024, wide |-> 1440]

\* typeof window === 'undefined' is ~window.defined.  maxTouchPoints is
\* navigator.maxTouchPoints and ontouchstart is 'ontouchstart' in window.
NoWindow ==
    [defined |-> FALSE, innerWidth |-> 0, innerHeight |-> 0,
     ontouchstart |-> FALSE, maxTouchPoints |-> 0]
Widths == {0, 320, 767, 768, 1023, 1024, 1439, 1440}
Heights == {600, 1024}
Windows ==
    [defined : {TRUE}, innerWidth : Widths, innerHeight : Heights,
     ontouchstart : BOOLEAN, maxTouchPoints : {0, 1}]

\* A browser has both globals, a server (or a build step) neither.
Hosts ==
    {[window |-> w, document |-> "document"] : w \in Windows}
        \cup {[window |-> NoWindow, document |-> Undefined]}

useBreakpoint(win) ==
    IF ~win.defined THEN "mobile"
    ELSE IF win.innerWidth >= BREAKPOINTS.wide THEN "wide"
    ELSE IF win.innerWidth >= BREAKPOINTS.desktop THEN "desktop"
    ELSE IF win.innerWidth >= BREAKPOINTS.tablet THEN "tablet"
    ELSE "mobile"

getViewportSize(win) ==
    IF ~win.defined THEN [width |-> 0, height |-> 0]
    ELSE [width |-> win.innerWidth, height |-> win.innerHeight]

getOrientation_landscape(win) ==
    IF ~win.defined THEN "landscape"
    ELSE IF win.innerHeight > win.innerWidth THEN "portrait" ELSE "landscape"

getOrientation(win) ==
    IF ~win.defined THEN "portrait"
    ELSE IF win.innerHeight > win.innerWidth THEN "portrait" ELSE "landscape"

isTouchDevice(win) ==
    IF ~win.defined THEN FALSE
    ELSE win.ontouchstart \/ win.maxTouchPoints > 0

\* A plausible slip: the max-width of an *Only range is the next breakpoint
\* itself, not one pixel below it.
MatchesOnly_inclusive(b, w) ==
    CASE b = "mobile" -> w <= BREAKPOINTS.tablet
      [] b = "tablet" -> w >= BREAKPOINTS.tablet /\ w <= BREAKPOINTS.desktop
      [] b = "desktop" -> w >= BREAKPOINTS.desktop /\ w <= BREAKPOINTS.wide
      [] OTHER -> w >= BREAKPOINTS.wide

\* Whether a viewport of width w matches mediaQuery.<b>Only.
MatchesOnly(b, w) ==
    CASE b = "mobile" -> w <= BREAKPOINTS.tablet - 1
      [] b = "tablet" -> w >= BREAKPOINTS.tablet /\ w <= BREAKPOINTS.desktop - 1
      [] b = "desktop" -> w >= BREAKPOINTS.desktop /\ w <= BREAKPOINTS.wide - 1
      [] OTHER -> w >= BREAKPOINTS.wide

\* The anchor createSkipLink builds and returns.
TargetIds == {"main", "content"}
SkipTexts == {Undefined, "Skip"}
SkipLink(targetId, text) ==
    [href |-> <<"#", targetId>>, textContent |-> Default(text, "Skip to main content"),
     className |-> "skip-link", top |-> "-40px"]

\* Reading the identifier document where no such global exists throws.
ReferenceError == "ReferenceError"
Throw(fn) == thrown' = Append(thrown, [fn |-> fn, error |-> ReferenceError])

NoCall == [fn |-> NotYet, result |-> NotYet]

InitHost ==
    /\ \E h \in Hosts : window = h.window /\ document = h.document
    /\ hostCall = NoCall
    /\ thrown = <<>>

\* The host of the other specifications is a browser.
IdleHost ==
    /\ window = [defined |-> TRUE, innerWidth |-> 1024, innerHeight |-> 600,
                 ontouchstart |-> FALSE, maxTouchPoints |-> 0]
    /\ document = "document"
    /\ hostCall = NoCall
    /\ thrown = <<>>

ServerHost ==
    /\ window = NoWindow
    /\ document = Undefined
    /\ hostCall = NoCall
    /\ thrown = <<>>

Returned(fn, result) == hostCall' = [fn |-> fn, result |-> result]

CallUseBreakpoint ==
    /\ Returned("useBreakpoint", useBreakpoint(window))
    /\ UNCHANGED <<window, document, thrown>>
    /\ UNCHANGED notHost

CallGetViewportSize ==
    /\ Returned("getViewportSize", getViewportSize(window))
    /\ UNCHANGED <<window, document, thrown>>
    /\ UNCHANGED notHost

CallGetOrientation ==
    /\ Returned("getOrientation", getOrientation(window))
    /\ UNCHANGED <<window, document, thrown>>
    /\ UNCHANGED notHost

CallIsTouchDevice ==
    /\ Returned("isTouchDevice", isTouchDevice(window))
    /\ UNCHANGED <<window, document, thrown>>
    /\ UNCHANGED notHost

createSkipLink ==
    \E targetId \in TargetIds, text \in SkipTexts :
        IF document = Undefined
        THEN /\ Len(thrown) < MaxThrows
             /\ Throw("createSkipLink")
             /\ UNCHANGED <<window, document, hostCall>>
             /\ UNCHANGED notHost
        ELSE /\ Returned("createSkipLink", SkipLink(targetId, text))
             /\ UNCHANGED <<window, document, thrown>>
             /\ UNCHANGED notHost

NextHost ==
    \/ CallUseBreakpoint
    \/ CallGetViewportSize
    \/ CallGetOrientation
    \/ CallIsTouchDevice
    \/ createSkipLink

(***************************************************************************)
(* index.ts: theme utilities                                               *)
(***************************************************************************)
\* How many theme calls one run makes.
MaxCalls == 3

Themes == {"light", "dark", "high-contrast"}

\* getTheme(): getAttribute('data-theme') || 'light' (null when unset).
\* A plausible slip: the attribute as read, without the 'light' default.
getTheme_raw(attr) == attr

getTheme(attr) == IF attr = Null \/ attr = "" THEN "light" ELSE attr

\* A plausible slip: the toggle only ever switches to dark.
toggleTarget_alwaysDark(currentTheme) == "dark"

\* A plausible slip: the toggle cycles through the three themes.
toggleTarget_cycle(currentTheme) ==
    IF currentTheme = "light" THEN "dark"
    ELSE IF currentTheme = "dark" THEN "high-contrast" ELSE "light"

\* newTheme of toggleTheme().
toggleTarget(currentTheme) == IF currentTheme = "light" THEN "dark" ELSE "light"

InitTheme ==
    /\ dataTheme = Null
    /\ themeLog = <<>>

Call(op, arg, ret) == [op |-> op, arg |-> arg, ret |-> ret, before |-> dataTheme]

setTheme ==
    \E theme \in Themes :
        IF document = Undefined
        THEN /\ Len(thrown) < MaxThrows
             /\ Throw("setTheme")
             /\ UNCHANGED themeVars
             /\ UNCHANGED notTheme
        ELSE /\ Len(themeLog) < MaxCalls
             /\ dataTheme' = theme
             /\ themeLog' = Append(themeLog, Call("setTheme", theme, Undefined))
             /\ UNCHANGED thrown
             /\ UNCHANGED notTheme

CallGetTheme ==
    IF document = Undefined
    THEN /\ Len(thrown) < MaxThrows
         /\ Throw("getTheme")
         /\ UNCHANGED themeVars
         /\ UNCHANGED notTheme
    ELSE /\ Len(themeLog) < MaxCalls
         /\ themeLog' = Append(themeLog, Call("getTheme", Undefined, getTheme(dataTheme)))
         /\ UNCHANGED <<dataTheme, thrown>>
         /\ UNCHANGED notTheme

\* toggleTheme calls getTheme first, and that is where it throws.
toggleTheme ==
    LET newTheme == toggleTarget(getTheme(dataTheme)) IN
    IF document = Undefined
    THEN /\ Len(thrown) < MaxThrows
         /\ Throw("toggleTheme")
         /\ UNCHANGED themeVars
         /\ UNCHANGED notTheme
    ELSE /\ Len(themeLog) < MaxCalls
         /\ dataTheme' = newTheme
         /\ themeLog' = Append(themeLog, Call("toggleTheme", Undefined, newTheme))
         /\ UNCHANGED thrown
         /\ UNCHANGED notTheme

NextTheme ==
    \/ setTheme
    \/ CallGetTheme
    \/ toggleTheme

(***************************************************************************)
(* Icons.tsx and the icon loader                                           *)
(***************************************************************************)
\* AVAILABLE_ICONS of the icon loader.
AVAILABLE_ICONS ==
    {"5372e21ad0423bd311cc879aaab4d81b2844a4cb",
     "d3c8a10d50893ae60f6c10f500772109d6a7cf22",
     "Add", "Clip", "icon6", "linkExternakl", "Loader", "Save"}

\* ICON_COMPONENTS: the object literal's own properties.
ICON_COMPONENTS ==
    [n \in {"Save", "Add", "Clip", "linkExternakl", "icon6",
            "5372e21ad0423bd311cc879aaab4d81b2844a4cb",
            "d3c8a10d50893ae60f6c10f500772109d6a7cf22", "Loader"} |->
        CASE n = "Save" -> "SaveIcon"
          [] n = "Add" -> "AddIcon"
          [] n = "Clip" -> "ClipIcon"
          [] n = "linkExternakl" -> "LinkExternalIcon"
          [] n = "icon6" -> "Icon6"
          [] n = "5372e21ad0423bd311cc879aaab4d81b2844a4cb" -> "HashIcon1"
          [] n = "d3c8a10d50893ae60f6c10f500772109d6a7cf22" -> "HashIcon2"
          [] n = "Loader" -> "LoaderIcon"]

\* What an object literal inherits from Object.prototype; every member is a
\* function or an object, so truthy.
ObjectPrototypeKeys ==
    {"constructor", "toString", "toLocaleString", "valueOf", "hasOwnProperty",
     "isPrototypeOf", "propertyIsEnumerable", "__proto__"}

\* Strings that are neither an icon name nor an inherited key.
OtherNames == {"nonexistent", "", "save", "SAVE", "SaveIcon", "Loader ", "none",
               "custom", "add", "icon7"}

IconNameArgs == AVAILABLE_ICONS \cup ObjectPrototypeKeys \cup OtherNames

\* obj[key]: the own property, else the inherited one, else undefined.
\* An inherited member is written "Object.prototype".
PropertyRead(obj, key) ==
    IF key \in DOMAIN obj THEN obj[key]
    ELSE IF key \in ObjectPrototypeKeys THEN "Object.prototype"
    ELSE Undefined

\* getIconComponent(iconName): ICON_COMPONENTS[iconName] || null
getIconComponent(name) ==
    LET c == PropertyRead(ICON_COMPONENTS, name) IN IF c = Undefined THEN Null ELSE c

\* CSS colours BaseIcon can derive: the string as given, or var(--color-<it>).
Literal(text) == [form |-> "literal", text |-> text]
ColorVar(token) == [form |-> "var(--color-)", text |-> token]

ColorArgs == {Undefined, "currentColor", "success-500", "error-500",
              "var(--brand)", "#ff0000", "red"}

\* color.startsWith('var(')
StartsWithVar(color) == color \in {"var(--brand)"}

\* getColorVariable(colorToken)
getColorVariable(colorToken) ==
    IF colorToken = "currentColor" THEN Literal("currentColor") ELSE ColorVar(colorToken)

\* The colour BaseIcon gives the icon: currentColor is left to the static
\* class; anything else becomes the colour of the injected rule.
BaseIconColor(colorProp) ==
    LET color == Default(colorProp, "currentColor") IN
    IF color = "currentColor" THEN Literal("currentColor")
    ELSE IF StartsWithVar(color) THEN Literal(color) ELSE getColorVariable(color)

InitIcons ==
    /\ iconName = NotYet
    /\ iconComponent = NotYet
    /\ iconColorArg = NotYet
    /\ iconColorCss = Literal(NotYet)

CallGetIconComponent ==
    \E name \in IconNameArgs :
        /\ iconName' = name
        /\ iconComponent' = getIconComponent(name)
        /\ UNCHANGED <<iconColorArg, iconColorCss>>
        /\ UNCHANGED notIcons

RenderBaseIcon ==
    \E color \in ColorArgs :
        /\ iconColorArg' = color
        /\ iconColorCss' = BaseIconColor(color)
        /\ UNCHANGED <<iconName, iconComponent>>
        /\ UNCHANGED notIcons

NextIcons ==
    \/ CallGetIconComponent
    \/ RenderBaseIcon

(***************************************************************************)
(* utils/accessibility: colour contrast                                    *)
(***************************************************************************)
\* A colour string is modelled by its word characters, all hex digits here
\* (the '#' is no word character): "#1D4ED8" is <<1, 13, 4, 14, 13, 8>>.
Palette ==
    {<<0, 0, 0, 0, 0, 0>>,          \* #000000
     <<15, 15, 15, 15, 15, 15>>,    \* #FFFFFF
     <<7, 6, 7, 6, 7, 6>>,          \* #767676
     <<7, 7, 7, 7, 7, 7>>,          \* #777777
     <<5, 9, 5, 9, 5, 9>>,          \* #595959
     <<9, 4, 9, 4, 9, 4>>,          \* #949494
     <<9, 5, 9, 5, 9, 5>>,          \* #959595
     <<1, 13, 4, 14, 13, 8>>,       \* #1D4ED8
     <<15, 15, 15>>,                \* #fff
     <<>>}                          \* the empty string

\* hex.match(/\w\w/g)?.map(x => parseInt(x, 16)): the pairs of digits, in
\* order, each as a byte; a last single digit matches nothing.
HexPairs(hex) == [i \in 1..(Len(hex) \div 2) |-> 16 * hex[2 * i - 1] + hex[2 * i]]

\* c <= 0.03928 ? c / 12.92 : Math.pow((c + 0.055) / 1.055, 2.4) for c = byte / 255,
\* in units of 1/100000, for the bytes of the palette.
LinearChannel(byte) ==
    CASE byte = 0 -> 0
      [] byte = 29 -> 1229
      [] byte = 78 -> 7619
      [] byte = 89 -> 9990
      [] byte = 118 -> 18116
      [] byte = 119 -> 18447
      [] byte = 148 -> 29614
      [] byte = 149 -> 30054
      [] byte = 216 -> 68669
      [] byte = 255 -> 100000

\* A number that may be NaN; value is in units of 1/100000.
NaN == [nan |-> TRUE, value |-> 0]
Num(v) == [nan |-> FALSE, value |-> v]

\* getLuminance(hex): no match at all gives [0, 0, 0]; fewer than three pairs
\* leave g or b undefined, and the sum is NaN.
getLuminance(hex) ==
    LET pairs == HexPairs(hex) IN
    IF Len(pairs) = 0 THEN Num(0)
    ELSE IF Len(pairs) < 3 THEN NaN
    ELSE Num((2126 * LinearChannel(pairs[1]) + 7152 * LinearChannel(pairs[2])
              + 722 * LinearChannel(pairs[3])) \div 10000)

\* getContrastRatio(color1, color2) as the fraction num / den; Math.max and
\* Math.min of a NaN are NaN.
getContrastRatio(c1, c2) ==
    LET l1 == getLuminance(c1)
        l2 == getLuminance(c2)
    IN IF l1.nan \/ l2.nan THEN [nan |-> TRUE, num |-> 0, den |-> 1]
       ELSE LET lightest == IF l1.value >= l2.value THEN l1.value ELSE l2.value
                darkest == IF l1.value >= l2.value THEN l2.value ELSE l1.value
            IN [nan |-> FALSE, num |-> lightest + 5000, den |-> darkest + 5000]

\* ratio >= tenths / 10 (false for NaN).
RatioAtLeast(ratio, tenths) == ~ratio.nan /\ ratio.num * 10 >= tenths * ratio.den

\* A plausible slip: the large and normal thresholds of AAA swapped.
meetsWCAGRequirement_swapped(c1, c2, levelArg, sizeArg) ==
    LET level == Default(levelArg, "AA")
        size == Default(sizeArg, "normal")
        ratio == getContrastRatio(c1, c2)
    IN IF level = "AAA"
       THEN IF size = "large" THEN RatioAtLeast(ratio, 70) ELSE RatioAtLeast(ratio, 45)
       ELSE IF size = "large" THEN RatioAtLeast(ratio, 30) ELSE RatioAtLeast(ratio, 45)

meetsWCAGRequirement(c1, c2, levelArg, sizeArg) ==
    LET level == Default(levelArg, "AA")
        size == Default(sizeArg, "normal")
        ratio == getContrastRatio(c1, c2)
    IN IF level = "AAA"
       THEN IF size = "large" THEN RatioAtLeast(ratio, 45) ELSE RatioAtLeast(ratio, 70)
       ELSE IF size = "large" THEN RatioAtLeast(ratio, 30) ELSE RatioAtLeast(ratio, 45)

InitContrast ==
    /\ color1 \in Palette
    /\ color2 \in Palette
    /\ wcagLevel \in {Undefined, "AA", "AAA"}
    /\ wcagSize \in {Undefined, "normal", "large"}
    /\ wcagCalled = FALSE
    /\ wcagResult = FALSE

IdleContrast ==
    /\ color1 = <<>>
    /\ color2 = <<>>
    /\ wcagLevel = Undefined
    /\ wcagSize = Undefined
    /\ wcagCalled = FALSE
    /\ wcagResult = FALSE

CallMeetsWCAGRequirement ==
    /\ ~wcagCalled
    /\ wcagCalled' = TRUE
    /\ wcagResult' = meetsWCAGRequirement(color1, color2, wcagLevel, wcagSize)
    /\ UNCHANGED <<color1, color2, wcagLevel, wcagSize>>
    /\ UNCHANGED notContrast

NextContrast ==
    \/ CallMeetsWCAGRequirement

(***************************************************************************)
(* Icons.tsx: BaseIcon mounted, re-rendered and unmounted by React         *)
(***************************************************************************)
\* Bound of the model: how many icon instances the page holds.
MaxIcons == 2
\* Bound of the model: how many distinct suffixes Math.random can produce.
MaxClasses == 2
\* Bound of the model: how many <style> elements document.head may hold.
MaxStyles == 3

IconSlots == 1..MaxIcons
\* icon-color-<suffix>, by the suffix Math.random produced.
ColorClasses == 1..MaxClasses
\* The span of a currentColor icon carries the static classes only.
NoColorClass == 0
MountColors == {Undefined, "currentColor", "error-500", "var(--brand)"}

\* The text of an injected <style>: .<colorClass> { color: <iconColor> !important; }
StyleRule(cls, css) == [cls |-> cls, css |-> css]
NoRule == StyleRule(NoColorClass, Literal(NotYet))
StyleRules ==
    {StyleRule(c, BaseIconColor(col)) : c \in ColorClasses,
                                       col \in MountColors \ {Undefined, "currentColor"}}

\* document.head.appendChild(style), document.head.removeChild(style), and the
\* number of <style> elements in the head.
AppendStyle(head, rule) == [head EXCEPT ![rule] = @ + 1]
RemoveStyle(head, rule) == [head EXCEPT ![rule] = @ - 1]
RECURSIVE CountIn(_, _)
CountIn(head, rules) ==
    IF rules = {} THEN 0
    ELSE LET r == CHOOSE x \in rules : TRUE IN head[r] + CountIn(head, rules \ {r})
StyleCount(head) == CountIn(head, StyleRules)

\* One icon instance: its color prop, the dynamic class of its span, whether
\* React holds hook state for it, and the style element its effect's cleanup
\* closes over.
NotMounted ==
    [mounted |-> FALSE, color |-> Undefined, cls |-> NoColorClass,
     hooks |-> FALSE, effect |-> NoRule]

\* One render of BaseIcon followed by React's commit, for an instance whose
\* previous state is prev (NotMounted on mount).  suffix is what Math.random
\* gives this render.  With color 'currentColor' the function returns before
\* React.useEffect: React then keeps no hook state for the instance, and an
\* effect of the previous render is dropped without its cleanup being run.
\* Otherwise the effect runs when it is new or when [colorClass, iconColor]
\* differ from the previous render's, after the previous effect's cleanup.
BaseIcon(prev, colorProp, suffix, head) ==
    LET color == Default(colorProp, "currentColor")
        rule == StyleRule(suffix, BaseIconColor(colorProp))
    IN  IF color = "currentColor"
        THEN [icon |-> [mounted |-> TRUE, color |-> colorProp, cls |-> NoColorClass,
                        hooks |-> FALSE, effect |-> NoRule],
              head |-> head]
        ELSE [icon |-> [mounted |-> TRUE, color |-> colorProp, cls |-> suffix,
                        hooks |-> TRUE, effect |-> rule],
              head |-> IF prev.hooks /\ prev.effect = rule THEN head
                       ELSE AppendStyle(IF prev.hooks THEN RemoveStyle(head, prev.effect)
                                        ELSE head, rule)]

\* React unmounting the instance: the cleanups of the effects it holds run.
UnmountBaseIcon(prev, head) ==
    [icon |-> NotMounted,
     head |-> IF prev.hooks THEN RemoveStyle(head, prev.effect) ELSE head]

InitMount ==
    /\ mountedIcons = [i \in IconSlots |-> NotMounted]
    /\ headStyles = [r \in StyleRules |-> 0]

IdleMount == InitMount

MountIcon ==
    \E i \in IconSlots, color \in MountColors, suffix \in ColorClasses :
        /\ ~mountedIcons[i].mounted
        /\ StyleCount(headStyles) < MaxStyles
        /\ LET r == BaseIcon(NotMounted, color, suffix, headStyles) IN
            /\ mountedIcons' = [mountedIcons EXCEPT ![i] = r.icon]
            /\ headStyles' = r.head
        /\ UNCHANGED notMount

RerenderIcon ==
    \E i \in IconSlots, color \in MountColors, suffix \in ColorClasses :
        /\ mountedIcons[i].mounted
        /\ StyleCount(headStyles) < MaxStyles
        /\ LET r == BaseIcon(mountedIcons[i], color, suffix, headStyles) IN
            /\ mountedIcons' = [mountedIcons EXCEPT ![i] = r.icon]
            /\ headStyles' = r.head
        /\ UNCHANGED notMount

UnmountIcon ==
    \E i \in IconSlots :
        /\ mountedIcons[i].mounted
        /\ LET r == UnmountBaseIcon(mountedIcons[i], headStyles) IN
            /\ mountedIcons' = [mountedIcons EXCEPT ![i] = r.icon]
            /\ headStyles' = r.head
        /\ UNCHANGED notMount

NextMount ==
    \/ MountIcon
    \/ RerenderIcon
    \/ UnmountIcon

(***************************************************************************)
(* utils/accessibility: announceToScreenReader                             *)
(***************************************************************************)
\* Bound of the model: how many announcements are made.
MaxAnnounce == 3

Messages == {"Saved", "3 errors"}
Priorities == {"polite", "assertive"}

\* The element lines 82-87 build; priority is Undefined when the argument is
\* omitted, and the parameter default makes it 'polite'.
LiveRegion_alwaysPolite(message, priority) ==
    [ariaLive |-> "polite", ariaAtomic |-> "true",
     className |-> "sr-only", textContent |-> message]

LiveRegion(message, priority) ==
    [ariaLive |-> Default(priority, "polite"), ariaAtomic |-> "true",
     className |-> "sr-only", textContent |-> message]

\* parent.removeChild(child): the children without child.  It throws
\* NotFoundError when child is not a child of parent.
Without(children, e) == SelectSeq(children, LAMBDA x : x # e)
IsChild(children, e) == \E k \in 1..Len(children) : children[k] = e

InitAnnounce ==
    /\ announceCalls = <<>>
    /\ liveElements = <<>>
    /\ bodyChildren = <<>>
    /\ timers = <<>>
    /\ removeLog = <<>>

IdleAnnounce == InitAnnounce

\* announceToScreenReader(message, priority): the new element is identified by
\* its position in liveElements.
announceToScreenReader ==
    \E message \in Messages, priority \in Priorities \cup {Undefined} :
        IF document = Undefined
        THEN /\ Len(thrown) < MaxThrows
             /\ Throw("announceToScreenReader")
             /\ UNCHANGED announceVars
             /\ UNCHANGED notAnnounce
        ELSE /\ Len(liveElements) < MaxAnnounce
             /\ announceCalls' = Append(announceCalls, [message |-> message, priority |-> priority])
             /\ LET announcement == Len(liveElements) + 1 IN
                 /\ liveElements' = Append(liveElements, LiveRegion(message, priority))
                 /\ bodyChildren' = Append(bodyChildren, announcement)
                 /\ timers' = Append(timers, announcement)
             /\ UNCHANGED <<removeLog, thrown>>
             /\ UNCHANGED notAnnounce

\* The callback of the oldest pending timeout: every timeout has the same
\* delay, so they fire in the order they were set.
TimerFires ==
    /\ timers # <<>>
    /\ LET announcement == Head(timers) IN
        /\ timers' = Tail(timers)
        /\ IF IsChild(bodyChildren, announcement)
           THEN /\ bodyChildren' = Without(bodyChildren, announcement)
                /\ removeLog' = Append(removeLog, [child |-> announcement, threw |-> FALSE])
           ELSE /\ bodyChildren' = bodyChildren
                /\ removeLog' = Append(removeLog, [child |-> announcement, threw |-> TRUE])
    /\ UNCHANGED <<announceCalls, liveElements, thrown>>
    /\ UNCHANGED notAnnounce

\* The host page removes one live region from the body itself (a framework
\* re-rendering the body's children, a cleanup of .sr-only nodes).
HostRemovesRegion ==
    \E k \in 1..Len(bodyChildren) :
        /\ bodyChildren' = Without(bodyChildren, bodyChildren[k])
        /\ UNCHANGED <<announceCalls, liveElements, timers, removeLog, thrown>>
        /\ UNCHANGED notAnnounce

\* The host page clears the body's children (document.body.innerHTML = '').
HostClearsBody ==
    /\ bodyChildren # <<>>
    /\ bodyChildren' = <<>>
    /\ UNCHANGED <<announceCalls, liveElements, timers, removeLog, thrown>>
    /\ UNCHANGED notAnnounce

NextAnnounce ==
    \/ announceToScreenReader
    \/ TimerFires

(***************************************************************************)
(* utils/responsive: the CSS emitters                                      *)
(***************************************************************************)
\* The CSS an emitter returns for a mapping: the value declared outside any
\* media query (mobile) and inside the min-width blocks of mediaQuery.tablet,
\* .desktop and .wide, Absent where the block declares nothing.  For a plain
\* argument the emitters return a single value or declaration.
CssBlocks(mobile, tablet, desktop, wide) ==
    [form |-> "blocks",
     at |-> [b \in Breakpoints |->
               CASE b = "mobile" -> mobile [] b = "tablet" -> tablet
                 [] b = "desktop" -> desktop [] OTHER -> wide]]
CssPlain(form, value) == [form |-> form, at |-> [b \in Breakpoints |-> value]]
NoCss == [fn |-> NotYet, css |-> CssPlain(NotYet, Absent)]

\* The argument types: ResponsiveValue<number> | number and
\* ResponsiveValue<string> | string.
NumberValued(rv) ==
    IF rv.isObject THEN rv \in ResponsiveMappings /\ \A b \in Breakpoints : rv.props[b] \in {Undefined, "0", "2"}
    ELSE rv.prim \in {"0", "2"}
StringValued(rv) ==
    IF rv.isObject THEN rv \in ResponsiveMappings /\ \A b \in Breakpoints : rv.props[b] \in {Undefined, "''", "'md'"}
    ELSE rv.prim \in {"''", "'md'"}

\* ${v ? `property: ${v};` : ''}
DeclareIfTruthy(v) == IF Truthy(v) THEN v ELSE Absent

gridColumns(columns) ==
    IF TypeOf(columns) = "number" THEN CssPlain("value", columns.prim)
    ELSE CssBlocks(Default(columns.props["mobile"], "1"),
                   Default(columns.props["tablet"], "2"),
                   Default(columns.props["desktop"], "3"),
                   Default(columns.props["wide"], "4"))

responsiveSpacing(spacing) ==
    IF TypeOf(spacing) = "string" THEN CssPlain("value", spacing.prim)
    ELSE CssBlocks(DeclareIfTruthy(spacing.props["mobile"]),
                   DeclareIfTruthy(spacing.props["tablet"]),
                   DeclareIfTruthy(spacing.props["desktop"]),
                   DeclareIfTruthy(spacing.props["wide"]))

responsiveFontSize(fontSize) ==
    IF TypeOf(fontSize) = "string" THEN CssPlain("declaration", fontSize.prim)
    ELSE CssBlocks(DeclareIfTruthy(fontSize.props["mobile"]),
                   DeclareIfTruthy(fontSize.props["tablet"]),
                   DeclareIfTruthy(fontSize.props["desktop"]),
                   DeclareIfTruthy(fontSize.props["wide"]))

\* The cascade: at a viewport in breakpoint b the blocks of the breakpoints up
\* to b apply, and the last of them that declares the property wins.
Declaring(css, b) ==
    {c \in Breakpoints : BreakpointRank(c) <= BreakpointRank(b) /\ css.at[c] # Absent}
EffectiveAt(css, b) ==
    IF Declaring(css, b) = {} THEN Undefined
    ELSE css.at[CHOOSE c \in Declaring(css, b) :
                    \A d \in Declaring(css, b) : BreakpointRank(d) <= BreakpointRank(c)]

InitCss == cssCall = NoCss

IdleCss == InitCss

CallGridColumns ==
    /\ cssCall = NoCss
    /\ NumberValued(responsiveValue)
    /\ cssCall' = [fn |-> "gridColumns", css |-> gridColumns(responsiveValue)]
    /\ UNCHANGED notCss

CallResponsiveSpacing ==
    /\ cssCall = NoCss
    /\ StringValued(responsiveValue)
    /\ cssCall' = [fn |-> "responsiveSpacing", css |-> responsiveSpacing(responsiveValue)]
    /\ UNCHANGED notCss

CallResponsiveFontSize ==
    /\ cssCall = NoCss
    /\ StringValued(responsiveValue)
    /\ cssCall' = [fn |-> "responsiveFontSize", css |-> responsiveFontSize(responsiveValue)]
    /\ UNCHANGED notCss

NextCss ==
    \/ CallGridColumns
    \/ CallResponsiveSpacing
    \/ CallResponsiveFontSize

NextAnnounceHost ==
    \/ announceToScreenReader
    \/ TimerFires
    \/ HostRemovesRegion
    \/ HostClearsBody

(***************************************************************************)
(* Specifications: one per subsystem.                                      *)
(***************************************************************************)
InitSpecResponsive ==
    InitResponsive /\ IdleFocus /\ IdleButton /\ InitTheme /\ InitIcons /\ IdleContrast /\ IdleMount /\ IdleAnnounce /\ IdleHost /\ IdleCss
SpecResponsive == InitSpecResponsive /\ [][NextResponsive]_vars

InitSpecFocus ==
    IdleResponsive /\ InitFocus /\ IdleButton /\ InitTheme /\ InitIcons /\ IdleContrast /\ IdleMount /\ IdleAnnounce /\ IdleHost /\ IdleCss
SpecFocus == InitSpecFocus /\ [][NextFocus]_vars

InitSpecButton ==
    IdleResponsive /\ IdleFocus /\ InitButton /\ InitTheme /\ InitIcons /\ IdleContrast /\ IdleMount /\ IdleAnnounce /\ IdleHost /\ IdleCss
SpecButton == InitSpecButton /\ [][NextButton]_vars

InitSpecTheme ==
    IdleResponsive /\ IdleFocus /\ IdleButton /\ InitTheme /\ InitIcons /\ IdleContrast /\ IdleMount /\ IdleAnnounce /\ IdleHost /\ IdleCss
SpecTheme == InitSpecTheme /\ [][NextTheme]_vars

InitSpecIcons ==
    IdleResponsive /\ IdleFocus /\ IdleButton /\ InitTheme /\ InitIcons /\ IdleContrast /\ IdleMount /\ IdleAnnounce /\ IdleHost /\ IdleCss
SpecIcons == InitSpecIcons /\ [][NextIcons]_vars

InitSpecContrast ==
    IdleResponsive /\ IdleFocus /\ IdleButton /\ InitTheme /\ InitIcons /\ InitContrast /\ IdleMount /\ IdleAnnounce /\ IdleHost /\ IdleCss
SpecContrast == InitSpecContrast /\ [][NextContrast]_vars

InitSpecMount ==
    IdleResponsive /\ IdleFocus /\ IdleButton /\ InitTheme /\ InitIcons /\ IdleContrast /\ InitMount /\ IdleAnnounce /\ IdleHost /\ IdleCss
SpecMount == InitSpecMount /\ [][NextMount]_vars

\* The event loop runs the callback of a timeout that is due.
InitSpecAnnounce ==
    IdleResponsive /\ IdleFocus /\ IdleButton /\ InitTheme /\ InitIcons /\ IdleContrast /\ IdleMount /\ InitAnnounce /\ IdleHost /\ IdleCss
SpecAnnounce == InitSpecAnnounce /\ [][NextAnnounce]_vars /\ WF_vars(TimerFires)

InitSpecHost ==
    IdleResponsive /\ IdleFocus /\ IdleButton /\ InitTheme /\ InitIcons /\ IdleContrast /\ IdleMount /\ IdleAnnounce /\ InitHost /\ IdleCss
SpecHost == InitSpecHost /\ [][NextHost]_vars

\* The library imported where there is no window and no document.
NextServer ==
    \/ setTheme
    \/ CallGetTheme
    \/ toggleTheme
    \/ announceToScreenReader
    \/ createSkipLink
InitSpecServer ==
    IdleResponsive /\ IdleFocus /\ IdleButton /\ InitTheme /\ InitIcons /\ IdleContrast /\ IdleMount /\ IdleAnnounce /\ ServerHost /\ IdleCss
SpecServer == InitSpecServer /\ [][NextServer]_vars

InitSpecCss ==
    InitResponsive /\ IdleFocus /\ IdleButton /\ InitTheme /\ InitIcons /\ IdleContrast /\ IdleMount /\ IdleAnnounce /\ IdleHost /\ InitCss
SpecCss == InitSpecCss /\ [][NextCss]_vars

\* Announcements on a page whose host also changes the body.
SpecAnnounceHost == InitSpecAnnounce /\ [][NextAnnounceHost]_vars /\ WF_vars(TimerFires)

(***************************************************************************)
(* Claims                                                                  *)
(***************************************************************************)

\* The breakpoints at or below b at which mapping m has an entry.
DefinedAtOrBelow(m, b) ==
    {c \in Breakpoints : BreakpointRank(c) <= BreakpointRank(b) /\ m[c] # Undefined}
Largest(S) == CHOOSE c \in S : \A d \in S : BreakpointRank(d) <= BreakpointRank(c)

TabOnActiveTrap ==
    /\ lastEvent.key = "Tab"
    /\ trapActive
    /\ focusableElements = getFocusableElements

\* C2: on an activated trap with a non-empty list e1..en, Shift+Tab on e1
\* prevents the default and focuses en, and Tab on en prevents the default and
\* focuses e1.
C2_WrapsAtBothEnds ==
    (TabOnActiveTrap /\ Len(focusableElements) > 0) =>
        LET e1 == focusableElements[1]
            en == focusableElements[Len(focusableElements)]
        IN /\ (lastEvent.shiftKey /\ lastEvent.before = e1) =>
                  (lastEvent.defaultPrevented /\ activeElement = en)
           /\ (~lastEvent.shiftKey /\ lastEvent.before = en) =>
                  (lastEvent.defaultPrevented /\ activeElement = e1)

\* C2's case: Shift+Tab on the first of three elements has moved the focus to
\* the third.
C2_Witness ==
    /\ TabOnActiveTrap /\ Len(focusableElements) = 3
    /\ lastEvent.shiftKey
    /\ lastEvent.before = focusableElements[1]
    /\ lastEvent.defaultPrevented
    /\ activeElement = focusableElements[3]

\* C3: after activate() found no focusable element, every Tab and Shift+Tab
\* keydown has its default prevented and leaves the focus where it was.
C3_EmptyTrapSuppressesTab ==
    (lastEvent.key = "Tab" /\ trapActive /\ Len(focusableElements) = 0) =>
        (lastEvent.defaultPrevented /\ activeElement = lastEvent.before)

\* C3's case: a Shift+Tab on an activated trap over an empty container.
C3_Witness ==
    /\ lastEvent.key = "Tab" /\ lastEvent.shiftKey
    /\ trapActive /\ focusableDom = {} /\ Len(focusableElements) = 0
    /\ lastEvent.defaultPrevented

\* C4: once deactivate() has been called (and activate() not again), a Tab
\* keydown on a focused element of the container is not intercepted: no
\* preventDefault, no focus move by the trap.
C4_DeactivatedTrapLetsTabThrough ==
    (lastEvent.key = "Tab" /\ ~trapActive /\ nextBound > 1
     /\ lastEvent.before \in focusableDom) =>
        (~lastEvent.defaultPrevented /\ lastEvent.intercepts = 0
         /\ lastEvent.afterHandlers = lastEvent.before)

\* C5: a trap is inactive from construction until activate(); before the
\* first activate() a Tab keydown on a focused element of the container is
\* not intercepted.
C5_InactiveTrapLetsTabThrough ==
    (lastEvent.key = "Tab" /\ ~everActivated /\ lastEvent.before \in focusableDom) =>
        (~lastEvent.defaultPrevented /\ lastEvent.intercepts = 0
         /\ lastEvent.afterHandlers = lastEvent.before)

\* The slot iconPosition names, and the other one.
IconSlot == IF Default(buttonProps.iconPosition, "left") = "left"
            THEN rendered.left ELSE rendered.right
OtherSlot == IF Default(buttonProps.iconPosition, "left") = "left"
             THEN rendered.right ELSE rendered.left
IsOff == Truthy(buttonProps.disabled) \/ Truthy(buttonProps.loading)

\* C6 as amended: whenever loading is true the icon slot shows the loader
\* instead of the supplied icon, and the button carries aria-busy="true"
\* unless the caller passes an aria-busy attribute of its own, which replaces it.
C6_LoadingShowsLoader ==
    (rendered # NotRendered /\ Truthy(buttonProps.loading)) =>
        /\ IconSlot.shown /\ IconSlot.icon.kind = "LoaderIcon"
        /\ ~OtherSlot.shown
        /\ rendered.ariaBusy = IF buttonProps.ariaBusy = Absent THEN "true"
                               ELSE buttonProps.ariaBusy

\* C6's case: loading with a component icon supplied on the right.
C6_Witness ==
    /\ rendered # NotRendered
    /\ buttonProps.loading = "true"
    /\ buttonProps.icon.kind = "component"
    /\ buttonProps.iconPosition = "right"
    /\ rendered.right.shown /\ rendered.right.icon.kind = "LoaderIcon"
    /\ rendered.ariaBusy = "true"

\* C6 as claimed: whenever loading is true, whatever else is passed, the icon
\* slot shows the loader and the button carries aria-busy="true".
C6_AsClaimed ==
    (rendered # NotRendered /\ Truthy(buttonProps.loading)) =>
        /\ IconSlot.shown /\ IconSlot.icon.kind = "LoaderIcon"
        /\ rendered.ariaBusy = "true"

\* C7 as amended: the native disabled attribute is there exactly when disabled
\* or loading is set; with no aria-disabled passed through, aria-disabled is
\* "true" exactly then and absent otherwise (a passed one replaces it); and
\* with both unset the component adds no aria-disabled and no aria-busy.
C7_DisabledExactlyWhenOff ==
    (rendered # NotRendered) =>
        /\ rendered.disabled = IsOff
        /\ rendered.ariaDisabled =
              IF buttonProps.ariaDisabled # Absent THEN buttonProps.ariaDisabled
              ELSE IF IsOff THEN "true" ELSE Absent
        /\ ~IsOff => (rendered.ariaDisabled = buttonProps.ariaDisabled
                      /\ rendered.ariaBusy = buttonProps.ariaBusy)

\* C7's case: loading alone, disabled not passed, disables the button.
C7_Witness ==
    /\ rendered # NotRendered
    /\ buttonProps.disabled = Undefined /\ buttonProps.loading = "true"
    /\ buttonProps.ariaDisabled = Absent
    /\ rendered.disabled /\ rendered.ariaDisabled = "true"

\* C7 as claimed: for all props, with disabled or loading set the button has
\* disabled and aria-disabled="true"; with both unset it has no disabled
\* attribute and the component adds no aria-disabled and no aria-busy.
C7_AsClaimed ==
    (rendered # NotRendered) =>
        /\ IsOff => (rendered.disabled /\ rendered.ariaDisabled = "true")
        /\ ~IsOff => (~rendered.disabled
                      /\ rendered.ariaDisabled = buttonProps.ariaDisabled
                      /\ rendered.ariaBusy = buttonProps.ariaBusy)

\* The data-theme attribute as call i of the log left it.
AttrAfter(i) == IF i = Len(themeLog) THEN dataTheme ELSE themeLog[i + 1].before

\* C8: from every reachable theme state toggleTheme() writes light or dark,
\* never high-contrast: dark when the theme was light or unset, light otherwise.
C8_ToggleTargetsLightOrDark ==
    \A i \in 1..Len(themeLog) :
        themeLog[i].op = "toggleTheme" =>
            /\ AttrAfter(i) \in {"light", "dark"}
            /\ AttrAfter(i) = IF themeLog[i].before \in {Null, "light"}
                              THEN "dark" ELSE "light"

\* C8's case: a toggle while the theme is high-contrast has written light.
C8_Witness ==
    \E i \in 1..Len(themeLog) :
        /\ themeLog[i].op = "toggleTheme"
        /\ themeLog[i].before = "high-contrast"
        /\ AttrAfter(i) = "light"

\* C9: getIconComponent returns the renderer of each of the eight names of
\* AVAILABLE_ICONS (the keys of ICON_COMPONENTS) and null for every other string.
C9_LookupIsClosed ==
    /\ AVAILABLE_ICONS = DOMAIN ICON_COMPONENTS
    /\ iconName # NotYet =>
          iconComponent = IF iconName \in AVAILABLE_ICONS
                          THEN ICON_COMPONENTS[iconName] ELSE Null

\* The threshold table, in tenths.
ThresholdTenths(level, size) ==
    CASE level = "AA" /\ size = "normal" -> 45
      [] level = "AA" /\ size = "large" -> 30
      [] level = "AAA" /\ size = "normal" -> 70
      [] level = "AAA" /\ size = "large" -> 45

\* C10: meetsWCAGRequirement is true exactly when the contrast ratio of the
\* two colours reaches the table's threshold for the level and size, an
\* omitted level being AA and an omitted size normal.
C10_MeetsThresholdTable ==
    wcagCalled =>
        (wcagResult <=>
            RatioAtLeast(getContrastRatio(color1, color2),
                         ThresholdTenths(IF wcagLevel = Undefined THEN "AA" ELSE wcagLevel,
                                         IF wcagSize = Undefined THEN "normal" ELSE wcagSize)))

\* C10's case: a ratio between 4.5 and 7 passes AAA for large text.
C10_Witness ==
    /\ wcagCalled /\ wcagLevel = "AAA" /\ wcagSize = "large"
    /\ RatioAtLeast(getContrastRatio(color1, color2), 45)
    /\ ~RatioAtLeast(getContrastRatio(color1, color2), 70)
    /\ wcagResult

\* C11: over any sequence of mounts, re-renders and unmounts of icons, the
\* number of style elements in document.head equals the number of mounted
\* icons whose effective color is not "currentColor"; in particular none
\* remains once every icon is unmounted.
ColoredIcons ==
    {i \in IconSlots : /\ mountedIcons[i].mounted
                       /\ Default(mountedIcons[i].color, "currentColor") # "currentColor"}
C11_OneStylePerColoredIcon == StyleCount(headStyles) = Cardinality(ColoredIcons)

\* C12: every announceToScreenReader call appends exactly one live region to
\* the body (aria-live = the priority, polite when omitted; text = the
\* message); each region is removed exactly once, by its own timeout, which
\* removes nothing else; and every region is eventually removed, so that none
\* remains once all timeouts have fired.
Removals(e) == Cardinality({k \in 1..Len(removeLog) : removeLog[k].child = e /\ ~removeLog[k].threw})
IsPending(e) == \E k \in 1..Len(timers) : timers[k] = e
AnnouncementAppendsOneRegion ==
    Len(announceCalls') > Len(announceCalls) =>
        LET e == Len(liveElements') IN
        /\ Len(announceCalls') = Len(announceCalls) + 1
        /\ Len(liveElements') = Len(liveElements) + 1
        /\ bodyChildren' = Append(bodyChildren, e)
        /\ liveElements'[e].textContent = announceCalls'[e].message
        /\ liveElements'[e].ariaLive =
               IF announceCalls'[e].priority = Undefined THEN "polite"
               ELSE announceCalls'[e].priority
TimeoutRemovesOnlyItsOwn ==
    Len(removeLog') > Len(removeLog) =>
        LET e == removeLog'[Len(removeLog')].child IN
        /\ IsChild(bodyChildren, e)
        /\ bodyChildren' = Without(bodyChildren, e)
        /\ Len(bodyChildren') = Len(bodyChildren) - 1
RegionLifecycle ==
    \A e \in 1..Len(liveElements) :
        /\ Removals(e) <= 1
        /\ IsChild(bodyChildren, e) <=> IsPending(e)
        /\ IsChild(bodyChildren, e) <=> Removals(e) = 0
C12_EachRegionRemovedOnceByItsTimer ==
    /\ [][AnnouncementAppendsOneRegion /\ TimeoutRemovesOnlyItsOwn]_vars
    /\ []RegionLifecycle
    /\ \A e \in 1..MaxAnnounce :
           (e <= Len(liveElements)) ~> (Removals(e) = 1 /\ ~IsChild(bodyChildren, e))
    /\ <>[](bodyChildren = <<>>)
C12_Witness ==
    /\ Len(liveElements) = 2
    /\ announceCalls[1].priority = Undefined
    /\ liveElements[1].ariaLive = "polite"
    /\ liveElements[2].ariaLive = "assertive"
    /\ Removals(1) = 1
    /\ bodyChildren = <<2>>

\* C13: where no window object exists, useBreakpoint() returns 'mobile',
\* getViewportSize() returns {width: 0, height: 0}, getOrientation() returns
\* 'portrait' and isTouchDevice() returns false.
C13_DefaultsWithoutWindow ==
    ~window.defined =>
        /\ hostCall.fn = "useBreakpoint" => hostCall.result = "mobile"
        /\ hostCall.fn = "getViewportSize" => hostCall.result = [width |-> 0, height |-> 0]
        /\ hostCall.fn = "getOrientation" => hostCall.result = "portrait"
        /\ hostCall.fn = "isTouchDevice" => hostCall.result = FALSE
C13_Witness ==
    /\ ~window.defined
    /\ hostCall = [fn |-> "getOrientation", result |-> "portrait"]

\* C14: where the host has no document, setTheme, getTheme, toggleTheme,
\* announceToScreenReader and createSkipLink do not throw.
C14_NoThrowWithoutDocument == document = Undefined => thrown = <<>>

\* C15: colour resolution maps a design-token name t to var(--color-t) and
\* applies a literal colour as given: "currentColor", a value of the form
\* var(...), and any other literal colour such as a hex value.
ColorTokens == {"success-500", "error-500"}
LiteralColors == {"currentColor", "var(--brand)", "#ff0000", "red"}
C15_TokensWrappedLiteralsAsGiven ==
    /\ iconColorArg \in ColorTokens => iconColorCss = ColorVar(iconColorArg)
    /\ iconColorArg \in LiteralColors => iconColorCss = Literal(iconColorArg)

\* C16: given a plain T rather than a per-breakpoint mapping,
\* getResponsiveValue returns that same value at every breakpoint, whether
\* T is a primitive, null, or an object such as an array or a record.
C16_PlainValueReturnedUnchanged ==
    (rvCalled /\ responsiveValue \in PlainValues \cup PlainObjects) =>
        rvResult = responsiveValue.prim

\* C17: each activate() call recomputes the list from the container's current
\* focusable descendants and moves the focus to the first of them; when there
\* is none it leaves the focus where it was (and completes).
FirstInDocument(S) == CHOOSE x \in S : \A y \in S : x <= y
C17_ActivateRefreshesAndFocusesFirst ==
    [][activate =>
         /\ \A e \in Elems :
                e \in focusableDom <=>
                    \E k \in 1..Len(focusableElements') : focusableElements'[k] = e
         /\ Len(focusableElements') = Cardinality(focusableDom)
         /\ IF focusableDom = {} THEN activeElement' = activeElement
            ELSE /\ activeElement' = FirstInDocument(focusableDom)
                 /\ activeElement' = focusableElements'[1]
         /\ trapActive']_vars
\* C17's case: activate() on a container holding elements 2 and 3 has listed
\* them and focused the first.
C17_Witness ==
    /\ trapActive /\ everActivated /\ lastEvent = NoEvent
    /\ focusableDom = {2, 3}
    /\ focusableElements = <<2, 3>>
    /\ activeElement = 2

\* C18: while the trap is active, its list is non-empty and is the container's
\* focusable set, and the focus is on one of these elements, a Tab or
\* Shift+Tab (the browser moving the focus to the adjacent element when the
\* default is not prevented) leaves the focus on one of them; so does any
\* sequence of such keys.
C18_FocusStaysInside ==
    (TabOnActiveTrap /\ Len(focusableElements) > 0 /\ lastEvent.before \in focusableDom) =>
        activeElement \in focusableDom
\* C18's case: Tab on the second of three elements, left to the browser, has
\* moved the focus to the third.
C18_Witness ==
    /\ TabOnActiveTrap /\ Len(focusableElements) = 3
    /\ ~lastEvent.shiftKey
    /\ lastEvent.before = focusableElements[2]
    /\ ~lastEvent.defaultPrevented
    /\ activeElement = focusableElements[3]

\* C19: after any sequence of setTheme, getTheme and toggleTheme calls the
\* data-theme attribute is unset or one of light, dark, high-contrast; every
\* getTheme() returns what the most recent setTheme or toggleTheme before it
\* wrote, or 'light' when there was none; and getTheme() leaves the attribute
\* as it was.
Writes(i) == {j \in 1..(i - 1) : themeLog[j].op \in {"setTheme", "toggleTheme"}}
LastWrite(i) == CHOOSE j \in Writes(i) : \A k \in Writes(i) : k <= j
Written(j) == IF themeLog[j].op = "setTheme" THEN themeLog[j].arg ELSE themeLog[j].ret
C19_GetThemeReadsLastWrite ==
    /\ dataTheme \in Themes \cup {Null}
    /\ \A i \in 1..Len(themeLog) :
           themeLog[i].op = "getTheme" =>
               /\ AttrAfter(i) = themeLog[i].before
               /\ themeLog[i].ret = IF Writes(i) = {} THEN "light"
                                    ELSE Written(LastWrite(i))
\* C19's case: getTheme() after setTheme('high-contrast') and a toggle has
\* returned light, the value the toggle wrote.
C19_Witness ==
    /\ Len(themeLog) = 3
    /\ themeLog[1].op = "setTheme" /\ themeLog[1].arg = "high-contrast"
    /\ themeLog[2].op = "toggleTheme"
    /\ themeLog[3].op = "getTheme" /\ themeLog[3].ret = "light"
    /\ dataTheme = "light"

\* C20: the key handler intercepts only wrapping Tab presses.  For a keydown
\* of a key other than Tab, and for a Tab (Shift+Tab) keydown while the list
\* is non-empty and the focused element is not its last (first) element, the
\* handler neither prevents the default nor changes the focus.
Untouched ==
    /\ ~lastEvent.defaultPrevented
    /\ lastEvent.intercepts = 0
    /\ lastEvent.afterHandlers = lastEvent.before
C20_OnlyWrappingTabIntercepted ==
    /\ lastEvent.key \in Keys \ {"Tab"} => Untouched
    /\ (/\ lastEvent.key = "Tab"
        /\ Len(focusableElements) > 0
        /\ lastEvent.shiftKey => lastEvent.before # focusableElements[1]
        /\ ~lastEvent.shiftKey =>
               lastEvent.before # focusableElements[Len(focusableElements)])
           => Untouched
\* C20's case: Shift+Tab on the last of two elements of an active trap went
\* through to the browser, which moved the focus to the first.
C20_Witness ==
    /\ trapActive /\ lastEvent.key = "Tab" /\ lastEvent.shiftKey
    /\ focusableElements = <<1, 2>>
    /\ lastEvent.before = 2
    /\ Untouched
    /\ activeElement = 1

\* C21: the list, and the first and last elements the handler wraps at, are
\* those found at the most recent activate() (or at construction): they change
\* in activate() steps only, so not when focusable elements are added to or
\* removed from the container, and a Tab is wrapped exactly at the stored
\* first and last elements.
StoredList == <<focusableElements, firstFocusable, lastFocusable>>
WrapsAtStoredEnds ==
    (lastEvent.key = "Tab" /\ Len(focusableElements) > 0) =>
        (lastEvent.defaultPrevented <=>
            \/ lastEvent.shiftKey /\ lastEvent.before = firstFocusable
            \/ ~lastEvent.shiftKey /\ lastEvent.before = lastFocusable)
C21_ListFrozenUntilActivate ==
    /\ [][(StoredList' # StoredList) => activate]_vars
    /\ [][(focusableDom' # focusableDom) => UNCHANGED StoredList]_vars
    /\ []WrapsAtStoredEnds
\* C21's case: element 3 was added after the list <<1, 2>> was taken, and Tab
\* on 2 has still wrapped to 1.
C21_Witness ==
    /\ focusableElements = <<1, 2>> /\ lastFocusable = 2
    /\ focusableDom = {1, 2, 3}
    /\ lastEvent.key = "Tab" /\ ~lastEvent.shiftKey /\ lastEvent.before = 2
    /\ lastEvent.defaultPrevented
    /\ activeElement = 1

\* C22: each mounted icon with a color other than currentColor has a rule of
\* its own: the class its injected rule names is the dynamic class of its
\* span, and no other icon mounted at the same time carries that class.
RuleClassOnOwnSpan ==
    \A i \in ColoredIcons :
        /\ mountedIcons[i].effect # NoRule
        /\ headStyles[mountedIcons[i].effect] > 0
        /\ mountedIcons[i].effect.cls = mountedIcons[i].cls
C22_RuleClassUniquePerIcon ==
    /\ RuleClassOnOwnSpan
    /\ \A i \in ColoredIcons : \A j \in IconSlots \ {i} :
           mountedIcons[j].mounted => mountedIcons[j].cls # mountedIcons[i].cls

\* C23: when not loading, Button injects iconSize and iconColor into the
\* supplied icon only if it is an element whose type is a component; an
\* element whose type is a string tag and a text or number node are rendered
\* as they are; and when cloning throws, the element itself is rendered and
\* the render completes.
\* An icon is supplied when the icon prop holds a node other than the empty
\* ones (undefined, null, false) and the number 0.
IconSupplied == buttonProps.icon.kind \notin {"none", "zero"}
NotLoadingWithIcon ==
    /\ rendered # NotRendered
    /\ ~Truthy(buttonProps.loading)
    /\ IconSupplied
C23_InjectsIntoComponentsOnly ==
    NotLoadingWithIcon =>
        /\ IconSlot.shown
        /\ buttonProps.icon.kind = "component" =>
               /\ IconSlot.icon.kind = "component"
               /\ IconSlot.icon.size = Default(buttonProps.iconSize, "18")
               /\ IconSlot.icon.color = IF buttonProps.iconColor # Undefined
                                        THEN buttonProps.iconColor
                                        ELSE buttonProps.icon.color
        /\ buttonProps.icon.kind \in {"tag", "text", "number", "uncloneable"} =>
               IconSlot.icon = buttonProps.icon
\* C23's case: iconSize and iconColor given with a string-tag icon, which is
\* rendered as it was.
C23_Witness ==
    /\ NotLoadingWithIcon
    /\ buttonProps.icon.kind = "tag"
    /\ buttonProps.iconSize = "24" /\ buttonProps.iconColor = "error-500"
    /\ rendered.left.shown /\ rendered.left.icon = buttonProps.icon

\* C24: rendered without iconSize and iconColor, Button leaves a supplied icon
\* component element the size and the color it was created with.
C24_IconKeepsOwnSizeAndColor ==
    (/\ NotLoadingWithIcon
     /\ buttonProps.icon.kind = "component"
     /\ buttonProps.iconSize = Undefined
     /\ buttonProps.iconColor = Undefined) =>
        /\ IconSlot.icon.color = buttonProps.icon.color
        /\ buttonProps.icon.size # Undefined => IconSlot.icon.size = buttonProps.icon.size

\* C25: for every icon, loading and iconPosition, Button renders at most one
\* icon slot: a left slot exactly when an icon is supplied or loading is set
\* and iconPosition is left (the default), a right slot exactly when that
\* holds and iconPosition is right, and no slot when no icon is supplied and
\* loading is false.
WantsIcon == IconSupplied \/ Truthy(buttonProps.loading)
C25_AtMostOneIconSlot ==
    (rendered # NotRendered) =>
        /\ rendered.left.shown <=>
               (WantsIcon /\ buttonProps.iconPosition \in {Undefined, "left"})
        /\ rendered.right.shown <=> (WantsIcon /\ buttonProps.iconPosition = "right")
        /\ ~(rendered.left.shown /\ rendered.right.shown)
        /\ ~WantsIcon => (~rendered.left.shown /\ ~rendered.right.shown)
\* C25's case: loading with no icon and iconPosition right gives the right
\* slot alone.
C25_Witness ==
    /\ rendered # NotRendered
    /\ buttonProps.icon = NoIcon /\ buttonProps.loading = "true"
    /\ buttonProps.iconPosition = "right"
    /\ rendered.right.shown /\ ~rendered.left.shown

\* C26: for every partial mapping V and every breakpoint b, the value in
\* effect at b in the CSS that gridColumns(V), responsiveSpacing(V) and
\* responsiveFontSize(V) emit equals getResponsiveValue(V, b): a missing entry
\* falls back to the next smaller defined breakpoint.
C26_EmittedCssAgreesWithResolver ==
    (cssCall # NoCss /\ responsiveValue.isObject) =>
        \A b \in Breakpoints :
            EffectiveAt(cssCall.css, b) = getResponsiveValue(responsiveValue, b)

\* C27: activate() registers no keydown listener, so however often it is
\* called the container has the constructor's one listener and a Tab key press
\* is handled by the trap at most once: one preventDefault and one focus move
\* at most.
C27_ActivateRegistersNoListener ==
    /\ [][activate => listeners' = listeners]_vars
    /\ [](Cardinality(listeners) = 1 /\ lastEvent.intercepts <= 1)
\* C27's case: Tab on the only element of an activated trap, where a second
\* listener would handle the key a second time, was handled once.
C27_Witness ==
    /\ trapActive /\ everActivated
    /\ focusableElements = <<2>> /\ focusableDom = {2}
    /\ lastEvent.key = "Tab" /\ lastEvent.before = 2
    /\ lastEvent.defaultPrevented /\ lastEvent.intercepts = 1
    /\ activeElement = 2

\* C28: the removal a call of announceToScreenReader schedules completes
\* without error under every interleaving with host actions before the timer
\* fires, the host removing the live region or clearing the body included.
C28_RemovalNeverThrows ==
    \A k \in 1..Len(removeLog) : ~removeLog[k].threw

\* C29: toggleTheme() returns the theme it has just written, so getTheme()
\* right after it equals the returned value; and from light, dark or an unset
\* attribute two consecutive toggleTheme() calls leave getTheme() as it was
\* before the first.
C29_ToggleReturnsWrittenAndIsInvolution ==
    \A i \in 1..Len(themeLog) :
        themeLog[i].op = "toggleTheme" =>
            /\ AttrAfter(i) = themeLog[i].ret
            /\ getTheme(AttrAfter(i)) = themeLog[i].ret
            /\ (/\ i < Len(themeLog)
                /\ themeLog[i + 1].op = "toggleTheme"
                /\ themeLog[i].before \in {Null, "light", "dark"})
                   => getTheme(AttrAfter(i + 1)) = getTheme(themeLog[i].before)
\* C29's case: two toggles from an unset attribute, dark and back to light.
C29_Witness ==
    /\ Len(themeLog) = 2
    /\ themeLog[1].op = "toggleTheme" /\ themeLog[1].before = Null
    /\ themeLog[1].ret = "dark"
    /\ themeLog[2].op = "toggleTheme" /\ themeLog[2].ret = "light"
    /\ dataTheme = "light"

\* C30: for every integer viewport width w >= 0 exactly one of the ranges of
\* mediaQuery.mobileOnly, tabletOnly, desktopOnly and wideOnly contains w, and
\* it is the one named after the breakpoint useBreakpoint() returns for
\* window.innerWidth = w.
MaxWidth == 1500
OnlyRangesAt(w) == {b \in Breakpoints : MatchesOnly(b, w)}
WindowOfWidth(w) ==
    [defined |-> TRUE, innerWidth |-> w, innerHeight |-> 600,
     ontouchstart |-> FALSE, maxTouchPoints |-> 0]
C30_OnlyRangesPartitionWidths ==
    /\ \A w \in 0..MaxWidth : OnlyRangesAt(w) = {useBreakpoint(WindowOfWidth(w))}
    /\ (window.defined /\ hostCall.fn = "useBreakpoint") =>
           OnlyRangesAt(window.innerWidth) = {hostCall.result}
\* C30's case: at width 1024, the first pixel of desktop, useBreakpoint() has
\* returned desktop and desktopOnly alone matches.
C30_Witness ==
    /\ window.defined /\ window.innerWidth = 1024
    /\ hostCall = [fn |-> "useBreakpoint", result |-> "desktop"]
    /\ OnlyRangesAt(1024) = {"desktop"}

====
